---- MODULE Spec2Model ----
(***************************************************************************)
(* The history-based image editor (ImageEditor with imageHistory and       *)
(* historyIndex), its uploader, its remote gateway calls and its local     *)
(* canvas transforms, as a state machine.                                  *)
(*                                                                         *)
(* A React handler is a closure over the values of the render in which it  *)
(* was created.  An asynchronous handler keeps those values across its     *)
(* await: each operation in flight is a record in the bag `pending`        *)
(* holding what the closure captured (the historyIndex read by             *)
(* pushToHistory, the source image).  The functional updaters              *)
(* (prev => ...) read the state that is current when they run.             *)
(*                                                                         *)
(* A base64 payload is modelled by the sequence of steps that produced it: *)
(* <<"A">> is the content of file A, <<"A", "sepia">> the sepia filter     *)
(* applied to it, <<>> the empty string.                                   *)
(*                                                                         *)
(* outputResolution is left out: it is only passed to editImage and        *)
(* removeImageBackground, which do not read it.                            *)
(***************************************************************************)
EXTENDS Integers, Sequences, FiniteSets, Bags, TLC

\* ---------------------------------------------------------------- bounds
MaxHist == 2
MaxPending == 2
\* filters applied one after the other to one image
MaxFilters == 2
\* largest change of a channel by one lossy encoding
JpegError == 1
\* longest payload and longest media type of a data URI, in characters
MaxStr == 3

\* ------------------------------------------------------ program constants
DefaultLogoScale == 30
DefaultLogoX == 50
DefaultLogoY == 50
MinLogoScale == 10
MaxLogoScale == 100
LogoScaleStep == 5
\* productPrompts.length
NumPrompts == 5
\* RESOLUTION_MAP
Original == -1
P720 == 1280
P1080 == 1920
P4K == 3840

\* ------------------------------------------------------------ input sets
\* Files the user can pick: A is an image, X is a file that is not an image
\* (the accept="image/*" attribute is a hint, the reader accepts any file);
\* L is a logo image.
SourceFiles == {"A", "X"}
ImageFiles == {"A", "L"}
LogoFiles == {"L"}
FileType(f) == IF f = "X" THEN "text/plain" ELSE "image/png"
FilterNames == {"none", "grayscale", "sepia", "invert"}
\* the filter buttons exercised
FilterInputs == {"grayscale", "sepia"}
Prompts == {"", "p"}
LogoScales == {MaxLogoScale}
\* container and logo sizes (pixels) and cursor offsets of a drag
ContainerRects == {[width |-> 100, height |-> 100]}
LogoRects == {[width |-> 20, height |-> 20], [width |-> 120, height |-> 120]}
CursorOffsets == {[x |-> 100, y |-> 100]}
\* naturalWidth / width of the crop source, and window.devicePixelRatio,
\* as fractions
Ratios == {<<1, 1>>, <<1, 2>>}
\* completed crop rectangles (display pixels)
CropInputs == {[width |-> 0, height |-> 1], [width |-> 1, height |-> 1]}

\* the values the logoSize range input can deliver that are exercised by
\* the logo overlay alone: both ends and the first step
LogoScaleInputs == {MinLogoScale, MinLogoScale + LogoScaleStep, MaxLogoScale}
\* drags of the logo overlay alone: the cursor left of / above the container,
\* inside it and beyond it; a logo smaller than the container, one taller
\* than it and one wider and taller than both
DragOffsets == {[x |-> a, y |-> b] : a \in {-10, 30, 200}, b \in {-10, 30, 200}}
DragContainers == {[width |-> 100, height |-> 100], [width |-> 50, height |-> 80]}
DragLogos == {[width |-> 20, height |-> 20], [width |-> 10, height |-> 90], [width |-> 120, height |-> 120]}

\* inputs of the logo composite: sizes of the base image, logo positions in
\* percent, logo scales in hundredths, natural sizes of the logo
CompositeInputs == [baseW : {1, 640, 1000}, baseH : {1000},
                    pos : {[x |-> a, y |-> b] : a \in {0, 50, 100}, b \in {0, 50, 100}},
                    scale : {MinLogoScale, DefaultLogoScale, MaxLogoScale},
                    natW : {50, 200}, natH : {100}]
\* inputs of resizeImageBase64: preset keys (two that are not own keys of
\* RESOLUTION_MAP, one of them a property every object inherits) and sizes of
\* the decoded image around the presets
ResolutionKeys == {"original", "720p", "1080p", "4K", "8K", "constructor"}
ImageDims == {1, 640, 1279, 1280, 1281, 1920, 1921, 2560, 3840, 3841, 5000}
ResizeInputs == [key : ResolutionKeys, width : ImageDims, height : ImageDims]

\* logo files picked in the uploader of the mockup generator
MockLogoFiles == {"L", "M"}

\* pixels (R, G, B, alpha) of the images a filter is applied to: opaque and
\* translucent, and the media types of the files they came from
FilterPixels == [r : {0, 255}, g : {1, 100}, b : {0, 200}, a : {255, 1}]
FilterTypes == {"image/png", "image/jpeg"}
\* pixels the invert arithmetic is applied to: each channel in turn takes
\* every value
InvertPixels == UNION {[r : 0..255, g : {0, 255}, b : {0, 255}, a : {0, 255}],
                       [r : {0, 255}, g : 0..255, b : {0, 255}, a : {0, 255}],
                       [r : {0, 255}, g : {0, 255}, b : 0..255, a : {0, 255}]}

\* a filter name no button passes
UnknownFilter == "blur"
\* the names applyFilterToImage is called with in the study of the entries it
\* pushes
FilterArgs == FilterNames \cup {UnknownFilter}
\* the image data the pixel loop runs over: a filter, the size of the canvas
\* and the value of a pixel
PixelInputs == [filter : {"grayscale", "sepia"}, width : {2, 3}, height : {1}, px : InvertPixels]

\* strings are sequences of characters; the words data and base64, which
\* hold no separator, are one element each
Strings(alphabet) == UNION {[1..n -> alphabet] : n \in 0..MaxStr}
\* payloads over characters of the base64 alphabet, media types over
\* characters other than ',', ';' and ':'
CodecInputs == [base64 : Strings({"A", "/", "="}), mimeType : Strings({"i", "/", "+"})]

Null == "null"
NoCrop == [def |-> FALSE, width |-> 0, height |-> 0]
DefaultLogoPosition == [x |-> DefaultLogoX, y |-> DefaultLogoY]

VARIABLES imageHistory, historyIndex, prompt, isLoading, error,
          selectedFilter, completedCrop, isCropping,
          imageToCropSrc, imageToCropMimeType, logoBase64, logoMimeType,
          showLogoOverlay, logoScale, logoPosition, isDraggingLogo, pending

\* MerchMockupGenerator: its state (the names of the component prefixed with
\* mock where the editor has a state of the same name) and, in mockRun, its
\* handleGenerateMockups or handleBulkDownload in flight (<<>> when none)
VARIABLES mockLogoBase64, mockLogoMimeType, mockups, mockIsLoading, mockError,
          mockRun

\* the arguments of a function of utils.ts or of a canvas computation under
\* study, and its result once it was applied (<<>> before)
VARIABLES fnIn, fnOut

\* ImageEditor.tsx, the editor without a history: its state (prefixed with ie
\* where the editor with a history has a state of the same name) and, in
\* ieRequest, its gateway call in flight (<<>> when none)
VARIABLES originalImageBase64, originalImageMimeType, editedImageBase64,
          iePrompt, ieIsLoading, ieError, ieRequest

histVars == <<imageHistory, historyIndex>>
cropVars == <<completedCrop, isCropping, imageToCropSrc, imageToCropMimeType>>
logoVars == <<logoBase64, logoMimeType, showLogoOverlay, logoScale, logoPosition, isDraggingLogo>>
editVars == <<prompt, selectedFilter>>
vars == <<imageHistory, historyIndex, prompt, isLoading, error,
          selectedFilter, completedCrop, isCropping,
          imageToCropSrc, imageToCropMimeType, logoBase64, logoMimeType,
          showLogoOverlay, logoScale, logoPosition, isDraggingLogo, pending>>
mockVars == <<mockLogoBase64, mockLogoMimeType, mockups, mockIsLoading, mockError, mockRun>>
fnVars == <<fnIn, fnOut>>
ieVars == <<originalImageBase64, originalImageMimeType, editedImageBase64,
           iePrompt, ieIsLoading, ieError, ieRequest>>
\* what the editor does not touch
auxVars == <<mockVars, fnVars, ieVars>>
allVars == <<vars, mockVars, fnVars, ieVars>>

\* ------------------------------------------------------------- helpers
Min(a, b) == IF a < b THEN a ELSE b
Max(a, b) == IF a > b THEN a ELSE b

\* Array.prototype.slice(0, k) for k >= 0
Slice(s, k) == SubSeq(s, 1, Min(k, Len(s)))

\* whether the browser can decode the payload as an image: the content of
\* an image file, anything drawn from it on a canvas, or an image the
\* gateway generated
Decodable(b) == /\ b # <<>>
                /\ \/ b[1] \in ImageFiles
                   \/ \E i \in 1..Len(b) : b[i] \in {"edit", "rmbg"}

\* HTMLCanvasElement.toDataURL(type) encodes PNG unless type is a format
\* the canvas can encode
CanvasType(m) == IF m \in {"image/png", "image/jpeg"} THEN m ELSE "image/png"

\* ------------------------------------------------------ derived values
\* imageHistory[historyIndex] is undefined out of range
HasCurrent == historyIndex >= 0 /\ historyIndex < Len(imageHistory)
currentImageState == imageHistory[historyIndex + 1]
\* currentDisplayImageSrc is a non-empty data URI whenever the entry exists
currentDisplayImageSrc == HasCurrent
\* truthiness of currentDisplayImageBase64 (the empty string is falsy)
currentDisplayImageBase64 == HasCurrent /\ currentImageState.base64 # <<>>
currentDisplayImageMimeType == HasCurrent /\ currentImageState.mimeType # ""
\* the overlay <img ref={logoRef}> is mounted
LogoMounted == /\ currentDisplayImageSrc
               /\ showLogoOverlay
               /\ logoBase64 # <<>>
               /\ logoMimeType # ""

\* an operation in flight and what its closure captured
Op(kind, b, m, arg) == [kind |-> kind, idx |-> historyIndex, base64 |-> b,
                        mimeType |-> m, arg |-> arg]

\* the operations in flight
Pending == BagToSet(pending)
NumPending == BagCardinality(pending)
Start(op) == pending' = pending (+) SetToBag({op})
Finish(op) == pending' = pending (-) SetToBag({op})

\* room for one more operation within the bounds of the model
\* (a push made with the captured index p leaves at most p + 2 entries)
Room == historyIndex + 1 < MaxHist /\ NumPending < MaxPending

\* MerchMockupGenerator after construction
MockInit == /\ mockLogoBase64 = <<>>
            /\ mockLogoMimeType = ""
            /\ mockups = <<>>
            /\ mockIsLoading = FALSE
            /\ mockError = ""
            /\ mockRun = <<>>

\* no function under study
FnIdle == fnIn = Null /\ fnOut = <<>>

IeInit == /\ originalImageBase64 = <<>>
          /\ originalImageMimeType = ""
          /\ editedImageBase64 = <<>>
          /\ iePrompt = ""
          /\ ieIsLoading = FALSE
          /\ ieError = ""
          /\ ieRequest = <<>>

\* the editor after construction
EditorInit == /\ imageHistory = <<>>
              /\ historyIndex = -1
              /\ prompt = ""
              /\ isLoading = FALSE
              /\ error = ""
              /\ selectedFilter = Null
              /\ completedCrop = NoCrop
              /\ isCropping = FALSE
              /\ imageToCropSrc = <<>>
              /\ imageToCropMimeType = ""
              /\ logoBase64 = <<>>
              /\ logoMimeType = ""
              /\ showLogoOverlay = FALSE
              /\ logoScale = DefaultLogoScale
              /\ logoPosition = DefaultLogoPosition
              /\ isDraggingLogo = FALSE
              /\ pending = EmptyBag

Init == EditorInit /\ MockInit /\ IeInit /\ FnIdle

\* ------------------------------------------------------------ state setters
resetLogoOverlayStates == /\ logoBase64' = <<>>
                          /\ logoMimeType' = ""
                          /\ showLogoOverlay' = FALSE
                          /\ logoScale' = DefaultLogoScale
                          /\ logoPosition' = DefaultLogoPosition
                          /\ isDraggingLogo' = FALSE

resetEditingStates == /\ prompt' = ""
                      /\ selectedFilter' = Null
                      /\ resetLogoOverlayStates

\* pushToHistory created in a render whose historyIndex was idx: the slice
\* uses the captured idx, both updaters run on the current state
pushToHistory(idx, b, m) == /\ imageHistory' = Append(Slice(imageHistory, idx + 1), [base64 |-> b, mimeType |-> m])
                            /\ historyIndex' = historyIndex + 1

\* ------------------------------------------------------------------ upload
\* ImageUploader.handleFileChange up to its await: the file is being read
UploadStart(f) == /\ Room
                  /\ Start(Op("upload", <<f>>, FileType(f), ""))
                  /\ UNCHANGED <<histVars, editVars, cropVars, logoVars, isLoading, error>>
                  /\ UNCHANGED auxVars

\* the reader finished: onImageUpload = handleImageUpload, or the alert
UploadComplete(op, ok) ==
    /\ op \in Pending
    /\ op.kind = "upload"
    /\ Finish(op)
    /\ IF ok
       THEN /\ pushToHistory(op.idx, op.base64, op.mimeType)
            /\ resetEditingStates
            /\ error' = ""
            /\ UNCHANGED <<cropVars, isLoading>>
       ELSE UNCHANGED <<histVars, editVars, cropVars, logoVars, isLoading, error>>
    /\ UNCHANGED auxVars

\* ------------------------------------------------------------ undo / redo
\* the Undo and Redo buttons are enabled
UndoEnabled == ~(historyIndex <= 0 \/ isLoading \/ isCropping)
RedoEnabled == ~(historyIndex >= Len(imageHistory) - 1 \/ isLoading \/ isCropping)

\* the position handleUndo / handleRedo leave, from position idx of a
\* history of len entries
UndoIndex(idx) == IF idx > 0 THEN idx - 1 ELSE idx
RedoIndex(idx, len) == IF idx < len - 1 THEN idx + 1 ELSE idx

handleUndo == /\ UndoEnabled
              /\ IF historyIndex > 0
                 THEN /\ historyIndex' = UndoIndex(historyIndex)
                      /\ error' = ""
                      /\ resetEditingStates
                      /\ UNCHANGED <<imageHistory, cropVars, isLoading, pending>>
                 ELSE UNCHANGED vars
              /\ UNCHANGED auxVars

handleRedo == /\ RedoEnabled
              /\ IF historyIndex < Len(imageHistory) - 1
                 THEN /\ historyIndex' = RedoIndex(historyIndex, Len(imageHistory))
                      /\ error' = ""
                      /\ resetEditingStates
                      /\ UNCHANGED <<imageHistory, cropVars, isLoading, pending>>
                 ELSE UNCHANGED vars
              /\ UNCHANGED auxVars

\* ----------------------------------------------------- prompt, resolution
\* onChange of the prompt input
setPrompt(p) == /\ ~(isLoading \/ isCropping \/ ~currentDisplayImageBase64)
                /\ prompt' = p
                /\ UNCHANGED <<histVars, selectedFilter, cropVars, logoVars, isLoading, error, pending>>
                /\ UNCHANGED auxVars

\* ---------------------------------------------------------- remote gateway
\* handleEditImage up to its await (one call of editImage)
EditStart == /\ ~(isLoading \/ isCropping \/ ~currentDisplayImageBase64 \/ prompt = "")
             /\ Room
             /\ IF ~currentDisplayImageBase64 \/ ~currentDisplayImageMimeType \/ prompt = ""
                THEN /\ error' = "Please upload an image and enter a prompt."
                     /\ UNCHANGED <<isLoading, pending>>
                ELSE /\ isLoading' = TRUE
                     /\ error' = ""
                     /\ Start(Op("edit", currentImageState.base64, currentImageState.mimeType, prompt))
             /\ UNCHANGED <<histVars, editVars, cropVars, logoVars>>
             /\ UNCHANGED auxVars

\* handleRemoveBackground up to its await (one call of removeImageBackground)
RemoveBackgroundStart == /\ ~(isLoading \/ isCropping \/ ~currentDisplayImageBase64)
                         /\ Room
                         /\ IF ~currentDisplayImageBase64 \/ ~currentDisplayImageMimeType
                            THEN /\ error' = "Please upload an image to remove its background."
                                 /\ UNCHANGED <<isLoading, pending>>
                            ELSE /\ isLoading' = TRUE
                                 /\ error' = ""
                                 /\ Start(Op("rmbg", currentImageState.base64, currentImageState.mimeType, ""))
                         /\ UNCHANGED <<histVars, editVars, cropVars, logoVars>>
                         /\ UNCHANGED auxVars

\* the message set by the catch of handleEditImage / handleRemoveBackground
GatewayFailure(kind) == IF kind = "edit" THEN "Failed to edit image" ELSE "Failed to remove background"

\* GatewayComplete with a retry: a failed call is issued again
GatewayCompleteRetry(op, ok) ==
    /\ op \in Pending
    /\ op.kind \in {"edit", "rmbg"}
    /\ IF ok
       THEN /\ Finish(op)
            /\ pushToHistory(op.idx, Append(op.base64, op.kind), op.mimeType)
            /\ resetEditingStates
            /\ isLoading' = FALSE
            /\ UNCHANGED error
       ELSE /\ error' = GatewayFailure(op.kind)
            /\ UNCHANGED <<histVars, editVars, logoVars, isLoading, pending>>
    /\ UNCHANGED cropVars
    /\ UNCHANGED auxVars

\* the gateway answered: the rest of the try, or the catch, then the finally
GatewayComplete(op, ok) ==
    /\ op \in Pending
    /\ op.kind \in {"edit", "rmbg"}
    /\ Finish(op)
    /\ IF ok
       THEN /\ pushToHistory(op.idx, Append(op.base64, op.kind), op.mimeType)
            /\ resetEditingStates
            /\ UNCHANGED error
       ELSE /\ error' = GatewayFailure(op.kind)
            /\ UNCHANGED <<histVars, editVars, logoVars>>
    /\ isLoading' = FALSE
    /\ UNCHANGED cropVars
    /\ UNCHANGED auxVars

\* --------------------------------------------------------------- cropping
handleStartCropping == /\ currentDisplayImageBase64
                       /\ ~(isLoading \/ isCropping)
                       /\ IF currentDisplayImageBase64 /\ currentDisplayImageMimeType
                          THEN /\ imageToCropSrc' = currentImageState.base64
                               /\ imageToCropMimeType' = currentImageState.mimeType
                               /\ isCropping' = TRUE
                               /\ error' = ""
                               /\ UNCHANGED completedCrop
                          ELSE /\ error' = "Please upload an image first to crop."
                               /\ UNCHANGED cropVars
                       /\ UNCHANGED <<histVars, editVars, logoVars, isLoading, pending>>
                       /\ UNCHANGED auxVars

\* ReactCrop onComplete
setCompletedCrop(c) == /\ isCropping /\ imageToCropSrc # <<>>
                       /\ completedCrop' = [def |-> TRUE, width |-> c.width, height |-> c.height]
                       /\ UNCHANGED <<histVars, editVars, isCropping, imageToCropSrc, imageToCropMimeType, logoVars, isLoading, error, pending>>
                       /\ UNCHANGED auxVars

handleCancelCrop == /\ isCropping
                    /\ isCropping' = FALSE
                    /\ imageToCropSrc' = <<>>
                    /\ imageToCropMimeType' = ""
                    /\ completedCrop' = NoCrop
                    /\ error' = ""
                    /\ UNCHANGED <<histVars, editVars, logoVars, isLoading, pending>>
                    /\ UNCHANGED auxVars

\* canvasPreview: canvas.width = Math.floor(crop.width * scaleX * pixelRatio)
\* with scaleX = sc[1]/sc[2] and pixelRatio = pr[1]/pr[2]
CanvasDim(c, sc, pr) == (c * sc[1] * pr[1]) \div (sc[2] * pr[2])

\* the file made from previewCanvasRef.current.toDataURL(type): a canvas
\* with a zero dimension gives "data:,", which dataURLtoFile turns into an
\* empty image/png file
CroppedFile(src, type, w, h) == IF w = 0 \/ h = 0
                                THEN [base64 |-> <<>>, mimeType |-> "image/png"]
                                ELSE [base64 |-> Append(src, "crop"), mimeType |-> CanvasType(type)]

\* CropApplyStart with the Apply Crop button enabled on any rectangle
CropApplyStartAnyRect(sc, pr, ctxOk) ==
    /\ isCropping
    /\ Room
    /\ IF imageToCropSrc # <<>> /\ completedCrop.def
       THEN IF ctxOk /\ Decodable(imageToCropSrc)
            THEN LET type == IF imageToCropMimeType # "" THEN imageToCropMimeType ELSE "image/png"
                     f == CroppedFile(imageToCropSrc, type,
                                      CanvasDim(completedCrop.width, sc, pr),
                                      CanvasDim(completedCrop.height, sc, pr))
                 IN  /\ Start(Op("crop", f.base64, f.mimeType, ""))
                     /\ UNCHANGED error
            ELSE UNCHANGED <<pending, error>>
       ELSE /\ error' = "Could not apply crop."
            /\ UNCHANGED pending
    /\ UNCHANGED <<histVars, editVars, cropVars, logoVars, isLoading>>
    /\ UNCHANGED auxVars

\* handleApplyCrop up to the await of fileToBase64 (the Apply Crop button is
\* disabled while the completed rectangle has no width or no height)
CropApplyStart(sc, pr, ctxOk) ==
    /\ isCropping
    /\ ~(completedCrop.width = 0 \/ completedCrop.height = 0)
    /\ Room
    /\ IF imageToCropSrc # <<>> /\ completedCrop.def
       THEN IF ctxOk /\ Decodable(imageToCropSrc)
            THEN LET type == IF imageToCropMimeType # "" THEN imageToCropMimeType ELSE "image/png"
                     f == CroppedFile(imageToCropSrc, type,
                                      CanvasDim(completedCrop.width, sc, pr),
                                      CanvasDim(completedCrop.height, sc, pr))
                 IN  /\ Start(Op("crop", f.base64, f.mimeType, ""))
                     /\ UNCHANGED error
            ELSE UNCHANGED <<pending, error>>
       ELSE /\ error' = "Could not apply crop."
            /\ UNCHANGED pending
    /\ UNCHANGED <<histVars, editVars, cropVars, logoVars, isLoading>>
    /\ UNCHANGED auxVars

\* the reader finished: the try of handleApplyCrop, or its catch
CropApplyComplete(op, ok) ==
    /\ op \in Pending
    /\ op.kind = "crop"
    /\ Finish(op)
    /\ IF ok
       THEN /\ pushToHistory(op.idx, op.base64, op.mimeType)
            /\ isCropping' = FALSE
            /\ imageToCropSrc' = <<>>
            /\ imageToCropMimeType' = ""
            /\ completedCrop' = NoCrop
            /\ resetEditingStates
            /\ UNCHANGED error
       ELSE /\ error' = "Failed to process cropped image"
            /\ UNCHANGED <<histVars, editVars, cropVars, logoVars>>
    /\ UNCHANGED isLoading
    /\ UNCHANGED auxVars

\* ----------------------------------------------------------------- filter
\* applyFilterToImage up to the return of its try block: the Image is
\* created and its onload / onerror are set, nothing in the try throws
FilterStart(filterName) ==
    /\ ~(isLoading \/ isCropping \/ ~currentDisplayImageBase64)
    /\ Room
    /\ IF ~currentDisplayImageBase64 \/ ~currentDisplayImageMimeType
       THEN /\ error' = "No image to apply filter to."
            /\ UNCHANGED <<isLoading, pending>>
       ELSE /\ isLoading' = TRUE
            /\ error' = ""
            /\ Start(Op("filter", currentImageState.base64, currentImageState.mimeType, filterName))
    /\ UNCHANGED <<histVars, editVars, cropVars, logoVars>>
    /\ UNCHANGED auxVars

\* FilterComplete without the reset of the logo overlay
FilterCompleteKeepsLogo(op, ctxOk) ==
    /\ op \in Pending
    /\ op.kind = "filter"
    /\ Finish(op)
    /\ IF Decodable(op.base64) /\ ctxOk
       THEN /\ pushToHistory(op.idx, Append(op.base64, op.arg), op.mimeType)
            /\ selectedFilter' = op.arg
            /\ isLoading' = FALSE
            /\ UNCHANGED <<prompt, logoVars>>
       ELSE UNCHANGED <<histVars, editVars, logoVars, isLoading>>
    /\ UNCHANGED <<cropVars, error>>
    /\ UNCHANGED auxVars

\* img.onload (the image decoded) or img.onerror (it did not).  A throw
\* inside either callback happens after the try block has returned: the
\* catch does not run, no state is set.
FilterComplete(op, ctxOk) ==
    /\ op \in Pending
    /\ op.kind = "filter"
    /\ Finish(op)
    /\ IF Decodable(op.base64) /\ ctxOk
       THEN /\ pushToHistory(op.idx, Append(op.base64, op.arg), op.mimeType)
            /\ selectedFilter' = op.arg
            /\ isLoading' = FALSE
            /\ resetLogoOverlayStates
            /\ UNCHANGED prompt
       ELSE UNCHANGED <<histVars, editVars, logoVars, isLoading>>
    /\ UNCHANGED <<cropVars, error>>
    /\ UNCHANGED auxVars

\* ------------------------------------------------------------ logo overlay
\* handleLogoUpload that commits the logo as a history entry
handleLogoUploadCommits(f) == /\ logoBase64' = <<f>>
                              /\ logoMimeType' = FileType(f)
                              /\ showLogoOverlay' = TRUE
                              /\ logoScale' = DefaultLogoScale
                              /\ logoPosition' = DefaultLogoPosition
                              /\ error' = ""
                              /\ pushToHistory(historyIndex, <<f>>, FileType(f))
                              /\ UNCHANGED <<editVars, cropVars, isDraggingLogo, isLoading, pending>>
                              /\ UNCHANGED auxVars

\* handleLogoUpload, called by the logo ImageUploader when its reader is done
handleLogoUpload(f) == /\ logoBase64' = <<f>>
                       /\ logoMimeType' = FileType(f)
                       /\ showLogoOverlay' = TRUE
                       /\ logoScale' = DefaultLogoScale
                       /\ logoPosition' = DefaultLogoPosition
                       /\ error' = ""
                       /\ UNCHANGED <<histVars, editVars, cropVars, isDraggingLogo, isLoading, pending>>
                       /\ UNCHANGED auxVars

\* onChange of the "Show Logo Overlay" checkbox
setShowLogoOverlay(v) == /\ logoBase64 # <<>>
                         /\ ~(isLoading \/ isCropping)
                         /\ showLogoOverlay' = v
                         /\ UNCHANGED <<histVars, editVars, cropVars, logoBase64, logoMimeType, logoScale, logoPosition, isDraggingLogo, isLoading, error, pending>>
                         /\ UNCHANGED auxVars

\* onChange of the logoSize range input (min 0.1, max 1.0), in hundredths
setLogoScale(v) == /\ logoBase64 # <<>> /\ showLogoOverlay
                   /\ ~(isLoading \/ isCropping)
                   /\ logoScale' = v
                   /\ UNCHANGED <<histVars, editVars, cropVars, logoBase64, logoMimeType, showLogoOverlay, logoPosition, isDraggingLogo, isLoading, error, pending>>
                   /\ UNCHANGED auxVars

handleMouseDown == /\ LogoMounted
                   /\ isDraggingLogo' = TRUE
                   /\ UNCHANGED <<histVars, editVars, cropVars, logoBase64, logoMimeType, showLogoOverlay, logoScale, logoPosition, isLoading, error, pending>>
                   /\ UNCHANGED auxVars

\* DragPercent without the constraint to the container
DragPercentFree(c, cw, lw) == ((c - (lw \div 2)) * 100) \div cw

\* one axis of handleMouseMove: c = clientX - containerRect.left, cw and lw
\* the widths of the container and of the logo; the result in percent
DragPercent(c, cw, lw) == (Max(0, Min(c - (lw \div 2), cw - lw)) * 100) \div cw

handleMouseMove(e, containerRect, logoRect) ==
    /\ isDraggingLogo /\ LogoMounted
    /\ logoPosition' = [x |-> DragPercent(e.x, containerRect.width, logoRect.width),
                        y |-> DragPercent(e.y, containerRect.height, logoRect.height)]
    /\ UNCHANGED <<histVars, editVars, cropVars, logoBase64, logoMimeType, showLogoOverlay, logoScale, isDraggingLogo, isLoading, error, pending>>
    /\ UNCHANGED auxVars

handleMouseUp == /\ isDraggingLogo
                 /\ isDraggingLogo' = FALSE
                 /\ UNCHANGED <<histVars, editVars, cropVars, logoBase64, logoMimeType, showLogoOverlay, logoScale, logoPosition, isLoading, error, pending>>
                 /\ UNCHANGED auxVars

\* handleApplyLogoOverlay up to the return of its try block
LogoOverlayStart ==
    /\ logoBase64 # <<>> /\ showLogoOverlay
    /\ ~(isLoading \/ isCropping \/ ~currentDisplayImageSrc \/ logoBase64 = <<>>)
    /\ Room
    /\ IF ~currentDisplayImageBase64 \/ ~currentDisplayImageMimeType \/ logoBase64 = <<>> \/ logoMimeType = "" \/ ~LogoMounted
       THEN /\ error' = "Please ensure a main image and a logo are loaded before applying the overlay."
            /\ UNCHANGED <<isLoading, pending>>
       ELSE /\ isLoading' = TRUE
            /\ error' = ""
            /\ Start(Op("logo", currentImageState.base64, currentImageState.mimeType, ""))
    /\ UNCHANGED <<histVars, editVars, cropVars, logoVars>>
    /\ UNCHANGED auxVars

\* LogoOverlayComplete that commits the canvas holding the base image alone
\* when the logo is gone
LogoOverlayCompleteBaseOnly(op, ctxOk) ==
    /\ op \in Pending
    /\ op.kind = "logo"
    /\ Finish(op)
    /\ IF Decodable(op.base64) /\ ctxOk
       THEN /\ pushToHistory(op.idx, Append(op.base64, "logo"), op.mimeType)
            /\ showLogoOverlay' = FALSE
            /\ isLoading' = FALSE
            /\ UNCHANGED <<logoBase64, logoMimeType, logoScale, logoPosition, isDraggingLogo>>
       ELSE UNCHANGED <<histVars, logoVars, isLoading>>
    /\ UNCHANGED <<editVars, cropVars, error>>
    /\ UNCHANGED auxVars

\* mainImgElement.onload or onerror.  onload throws, outside the try, when
\* there is no 2D context, when logoRef.current is null (the overlay was
\* unmounted meanwhile) and when the logo image is broken (drawImage).
LogoOverlayComplete(op, ctxOk) ==
    /\ op \in Pending
    /\ op.kind = "logo"
    /\ Finish(op)
    /\ IF Decodable(op.base64) /\ ctxOk /\ LogoMounted /\ Decodable(logoBase64)
       THEN /\ pushToHistory(op.idx, Append(op.base64, "logo"), op.mimeType)
            /\ showLogoOverlay' = FALSE
            /\ isLoading' = FALSE
            /\ UNCHANGED <<logoBase64, logoMimeType, logoScale, logoPosition, isDraggingLogo>>
       ELSE UNCHANGED <<histVars, logoVars, isLoading>>
    /\ UNCHANGED <<editVars, cropVars, error>>
    /\ UNCHANGED auxVars

Next == \/ \E f \in SourceFiles : UploadStart(f)
        \/ \E op \in Pending, ok \in BOOLEAN : UploadComplete(op, ok)
        \/ handleUndo
        \/ handleRedo
        \/ \E p \in Prompts : setPrompt(p)
        \/ EditStart
        \/ RemoveBackgroundStart
        \/ \E op \in Pending, ok \in BOOLEAN : GatewayComplete(op, ok)
        \/ handleStartCropping
        \/ \E c \in CropInputs : setCompletedCrop(c)
        \/ handleCancelCrop
        \/ \E sc \in Ratios, pr \in Ratios, ctxOk \in BOOLEAN : CropApplyStart(sc, pr, ctxOk)
        \/ \E op \in Pending, ok \in BOOLEAN : CropApplyComplete(op, ok)
        \/ \E n \in FilterInputs : FilterStart(n)
        \/ \E op \in Pending, ctxOk \in BOOLEAN : FilterComplete(op, ctxOk)
        \/ \E f \in LogoFiles : handleLogoUpload(f)
        \/ \E v \in BOOLEAN : setShowLogoOverlay(v)
        \/ \E v \in LogoScales : setLogoScale(v)
        \/ handleMouseDown
        \/ \E e \in CursorOffsets, c \in ContainerRects, l \in LogoRects : handleMouseMove(e, c, l)
        \/ handleMouseUp
        \/ LogoOverlayStart
        \/ \E op \in Pending, ctxOk \in BOOLEAN : LogoOverlayComplete(op, ctxOk)

Spec == Init /\ [][Next]_allVars

\* The logo overlay alone, over one uploaded image: logo uploads, the
\* visibility checkbox, every kind of drag, scale changes, and the operations
\* that reset or bake the overlay (undo, redo, filter, logo bake).
NextLogo == \/ UploadStart("A")
            \/ \E op \in Pending : UploadComplete(op, TRUE)
            \/ handleUndo
            \/ handleRedo
            \/ FilterStart("invert")
            \/ \E op \in Pending : FilterComplete(op, TRUE)
            \/ \E f \in LogoFiles : handleLogoUpload(f)
            \/ \E v \in BOOLEAN : setShowLogoOverlay(v)
            \/ \E v \in LogoScaleInputs : setLogoScale(v)
            \/ handleMouseDown
            \/ \E e \in DragOffsets, c \in DragContainers, l \in DragLogos : handleMouseMove(e, c, l)
            \/ handleMouseUp
            \/ LogoOverlayStart
            \/ \E op \in Pending : LogoOverlayComplete(op, TRUE)

SpecLogo == Init /\ [][NextLogo]_allVars

\* -------------------------------------------------- MerchMockupGenerator
\* handleLogoUpload of MerchMockupGenerator, called by its ImageUploader
\* (which is never disabled) when the reader is done
MockLogoUpload(f) == /\ mockLogoBase64' = <<f>>
                     /\ mockLogoMimeType' = FileType(f)
                     /\ mockups' = <<>>
                     /\ mockError' = ""
                     /\ UNCHANGED <<mockIsLoading, mockRun, vars, fnVars, ieVars>>

\* the loop of handleGenerateMockups at an await: the logo its closure
\* captured, the prompt awaited (next), generatedResults, and a log of the
\* calls made (attempted) and of the failures (failed)
GenerateRun(logo, type) == [kind |-> "generate", logo |-> logo, mimeType |-> type, next |-> 1,
                            results |-> <<>>, attempted |-> <<1>>, failed |-> {}]

\* what generateImageWithLogo resolves to for prompt i
Mockup(run, i) == [prompt |-> i, base64 |-> <<run.logo, "mockup", i>>, mimeType |-> "image/png"]

\* handleGenerateMockups up to the first await
GenerateStart == /\ ~(mockIsLoading \/ mockLogoBase64 = <<>>)
                 /\ IF mockLogoBase64 = <<>> \/ mockLogoMimeType = ""
                    THEN /\ mockError' = "Please upload your logo first."
                         /\ UNCHANGED <<mockIsLoading, mockups, mockRun>>
                    ELSE /\ mockIsLoading' = TRUE
                         /\ mockError' = ""
                         /\ mockups' = <<>>
                         /\ mockRun' = <<GenerateRun(mockLogoBase64[1], mockLogoMimeType)>>
                 /\ UNCHANGED <<mockLogoBase64, mockLogoMimeType, vars, fnVars, ieVars>>

\* the call awaited returned (ok) or threw: the rest of that iteration, then
\* either the next call or, after the last prompt, the end of the handler
GenerateStep(ok) ==
    /\ mockRun # <<>>
    /\ mockRun[1].kind = "generate"
    /\ LET run == mockRun[1]
           results == IF ok THEN Append(run.results, Mockup(run, run.next)) ELSE run.results
           failed == IF ok THEN run.failed ELSE run.failed \cup {run.next}
       IN  /\ mockError' = IF ok THEN mockError ELSE "Failed to generate some mockups"
           /\ IF run.next < NumPrompts
              THEN /\ mockRun' = <<[run EXCEPT !.next = run.next + 1, !.results = results, !.failed = failed,
                                               !.attempted = Append(run.attempted, run.next + 1)]>>
                   /\ UNCHANGED <<mockups, mockIsLoading>>
              ELSE /\ mockups' = results
                   /\ mockIsLoading' = FALSE
                   /\ mockRun' = <<>>
    /\ UNCHANGED <<mockLogoBase64, mockLogoMimeType, vars, fnVars, ieVars>>

\* handleBulkDownload up to its first await
BulkDownloadStart == /\ ~(mockIsLoading \/ mockups = <<>>)
                     /\ mockIsLoading' = TRUE
                     /\ mockRun' = <<[kind |-> "download"]>>
                     /\ UNCHANGED <<mockLogoBase64, mockLogoMimeType, mockups, mockError, vars, fnVars, ieVars>>

\* the loop of handleBulkDownload is over
BulkDownloadComplete == /\ mockRun # <<>>
                        /\ mockRun[1].kind = "download"
                        /\ mockIsLoading' = FALSE
                        /\ mockRun' = <<>>
                        /\ UNCHANGED <<mockLogoBase64, mockLogoMimeType, mockups, mockError, vars, fnVars, ieVars>>

NextMock == \/ \E f \in MockLogoFiles : MockLogoUpload(f)
            \/ GenerateStart
            \/ \E ok \in BOOLEAN : GenerateStep(ok)
            \/ BulkDownloadStart
            \/ BulkDownloadComplete

SpecMock == Init /\ [][NextMock]_allVars

\* ------------------------------------------------------- logo composite
\* LogoDraw with the logo sized relative to the width of the base image, as
\* the overlay is displayed before it is baked
LogoDrawRelative(baseW, baseH, pos, scale, natW, natH) ==
    [width |-> baseW, height |-> baseH,
     x100 |-> pos.x * baseW, y100 |-> pos.y * baseH,
     w100 |-> baseW * scale, h100 |-> (baseW * scale * natH) \div natW]

\* mainImgElement.onload of handleApplyLogoOverlay: the size of the canvas and
\* the rectangle of ctx.drawImage(logo, logoX, logoY, scaledLogoWidth,
\* scaledLogoHeight), in hundredths of a pixel (the scale is in hundredths,
\* the position in percent)
LogoDraw(baseW, baseH, pos, scale, natW, natH) ==
    [width |-> baseW, height |-> baseH,
     x100 |-> pos.x * baseW, y100 |-> pos.y * baseH,
     w100 |-> natW * scale, h100 |-> natH * scale]

Composite == /\ fnOut = <<>>
             /\ fnOut' = <<LogoDraw(fnIn.baseW, fnIn.baseH, fnIn.pos, fnIn.scale, fnIn.natW, fnIn.natH)>>
             /\ UNCHANGED <<fnIn, vars, mockVars, ieVars>>

InitComposite == EditorInit /\ MockInit /\ IeInit /\ fnIn \in CompositeInputs /\ fnOut = <<>>
SpecComposite == InitComposite /\ [][Composite]_allVars

\* ------------------------------------------------------ resizeImageBase64
\* RESOLUTION_MAP[resolutionKey].targetMaxDimension.  A key the map does not
\* hold gives undefined (found is false), unless Object.prototype holds it:
\* then the lookup gives that inherited value, whose targetMaxDimension is
\* undefined (defined is false).
Inherited == {"constructor"}
TargetOf(key) == CASE key = "original" -> [found |-> TRUE, defined |-> TRUE, dim |-> Original]
                   [] key = "720p" -> [found |-> TRUE, defined |-> TRUE, dim |-> P720]
                   [] key = "1080p" -> [found |-> TRUE, defined |-> TRUE, dim |-> P1080]
                   [] key = "4K" -> [found |-> TRUE, defined |-> TRUE, dim |-> P4K]
                   [] key \in Inherited -> [found |-> TRUE, defined |-> FALSE, dim |-> 0]
                   [] OTHER -> [found |-> FALSE, defined |-> FALSE, dim |-> 0]

\* Math.round(n / d) for n >= 0 and d > 0
Round(n, d) == (2 * n + d) \div (2 * d)

\* ResizeDims without the minimum of one pixel
ResizeDimsNoClamp(w, h, T) ==
    LET nw == IF w > T \/ h > T
              THEN IF w > h THEN T ELSE Round(T * w, h)
              ELSE IF w < T /\ h < T
                   THEN IF w < h THEN Round(T * w, h) ELSE T
                   ELSE w
        nh == IF w > T \/ h > T
              THEN IF w > h THEN Round(T * h, w) ELSE T
              ELSE IF w < T /\ h < T
                   THEN IF w < h THEN T ELSE Round(T * h, w)
                   ELSE h
    IN  [width |-> nw, height |-> nh]

\* ResizeDims that scales down to one pixel less than the target
ResizeDimsBelowTarget(w, h, T) ==
    LET nw == IF w > T \/ h > T
              THEN IF w > h THEN T - 1 ELSE Round((T - 1) * w, h)
              ELSE IF w < T /\ h < T
                   THEN IF w < h THEN Round(T * w, h) ELSE T
                   ELSE w
        nh == IF w > T \/ h > T
              THEN IF w > h THEN Round((T - 1) * h, w) ELSE T - 1
              ELSE IF w < T /\ h < T
                   THEN IF w < h THEN T ELSE Round(T * h, w)
                   ELSE h
    IN  [width |-> IF nw <= 0 THEN 1 ELSE nw, height |-> IF nh <= 0 THEN 1 ELSE nh]

\* ResizeDims that scales down only when both axes are above the target
ResizeDimsBothAbove(w, h, T) ==
    LET nw == IF w > T /\ h > T
              THEN IF w > h THEN T ELSE Round(T * w, h)
              ELSE IF w < T /\ h < T
                   THEN IF w < h THEN Round(T * w, h) ELSE T
                   ELSE w
        nh == IF w > T /\ h > T
              THEN IF w > h THEN Round(T * h, w) ELSE T
              ELSE IF w < T /\ h < T
                   THEN IF w < h THEN T ELSE Round(T * h, w)
                   ELSE h
    IN  [width |-> IF nw <= 0 THEN 1 ELSE nw, height |-> IF nh <= 0 THEN 1 ELSE nh]

\* ResizeDims that gives the target to both axes
ResizeDimsSquare(w, h, T) ==
    IF w > T \/ h > T \/ (w < T /\ h < T)
    THEN [width |-> T, height |-> T]
    ELSE [width |-> w, height |-> h]

\* newWidth and newHeight for an image of w x h and a numeric target T
\* (aspectRatio = w / h, so T / aspectRatio = T * h / w)
ResizeDims(w, h, T) ==
    LET nw == IF w > T \/ h > T
              THEN IF w > h THEN T ELSE Round(T * w, h)
              ELSE IF w < T /\ h < T
                   THEN IF w < h THEN Round(T * w, h) ELSE T
                   ELSE w
        nh == IF w > T \/ h > T
              THEN IF w > h THEN Round(T * h, w) ELSE T
              ELSE IF w < T /\ h < T
                   THEN IF w < h THEN T ELSE Round(T * h, w)
                   ELSE h
    IN  [width |-> IF nw <= 0 THEN 1 ELSE nw, height |-> IF nh <= 0 THEN 1 ELSE nh]

\* resizeImageBase64 that decodes and re-encodes whatever the key is
resizeImageBase64Always(key, w, h) ==
    LET target == TargetOf(key)
    IN  IF target.found /\ target.defined /\ target.dim # Original
        THEN LET d == ResizeDims(w, h, target.dim)
             IN  [same |-> FALSE, decoded |-> TRUE, width |-> d.width, height |-> d.height]
        ELSE [same |-> FALSE, decoded |-> TRUE, width |-> w, height |-> h]

\* resizeImageBase64 for an image that decodes to w x h, with a 2D context:
\* same = the payload resolved is the payload passed in, decoded = the image
\* was loaded and drawn on a canvas, which encoded the payload resolved.
\* Comparisons with an undefined target are false: the size is kept.
resizeImageBase64(key, w, h) ==
    LET target == TargetOf(key)
    IN  IF ~target.found \/ (target.defined /\ target.dim = Original)
        THEN [same |-> TRUE, decoded |-> FALSE, width |-> w, height |-> h]
        ELSE IF ~target.defined
             THEN [same |-> FALSE, decoded |-> TRUE, width |-> w, height |-> h]
             ELSE LET d == ResizeDims(w, h, target.dim)
                  IN  [same |-> FALSE, decoded |-> TRUE, width |-> d.width, height |-> d.height]

Resize == /\ fnOut = <<>>
          /\ fnOut' = <<resizeImageBase64(fnIn.key, fnIn.width, fnIn.height)>>
          /\ UNCHANGED <<fnIn, vars, mockVars, ieVars>>

\* the image resolved is resized again with the same key
ResizeAgain == /\ Len(fnOut) = 1
               /\ fnOut' = Append(fnOut, resizeImageBase64(fnIn.key, fnOut[1].width, fnOut[1].height))
               /\ UNCHANGED <<fnIn, vars, mockVars, ieVars>>

InitResize == EditorInit /\ MockInit /\ IeInit /\ fnIn \in ResizeInputs /\ fnOut = <<>>
NextResize == Resize \/ ResizeAgain
SpecResize == InitResize /\ [][NextResize]_allVars

\* ------------------------------------------------------------ pixel filter
\* conversion of a number n / d to an element of a Uint8ClampedArray:
\* clamped to 0 .. 255 and rounded to the nearest integer, ties to even
ToUint8Clamped(n, d) ==
    LET q == n \div d
        rem == n - q * d
        v == IF 2 * rem > d \/ (2 * rem = d /\ q % 2 = 1) THEN q + 1 ELSE q
    IN  Max(0, Min(255, v))

\* FilterPixel with a grayscale weighted by luminance and a sepia that is not
\* clamped before it is stored
FilterPixelLuma(filterName, p) ==
    CASE filterName = "grayscale" ->
           LET avg == ToUint8Clamped(299 * p.r + 587 * p.g + 114 * p.b, 1000)
           IN  [r |-> avg, g |-> avg, b |-> avg, a |-> p.a]
      [] filterName = "sepia" ->
           [r |-> (393 * p.r + 769 * p.g + 189 * p.b) \div 1000,
            g |-> (349 * p.r + 686 * p.g + 168 * p.b) \div 1000,
            b |-> (272 * p.r + 534 * p.g + 131 * p.b) \div 1000,
            a |-> p.a]
      [] filterName = "invert" ->
           [r |-> 255 - p.r, g |-> 255 - p.g, b |-> 255 - p.b, a |-> p.a]
      [] OTHER -> p

\* FilterPixel with an invert that subtracts from 256
FilterPixelOffByOne(filterName, p) ==
    CASE filterName = "grayscale" ->
           LET avg == ToUint8Clamped(p.r + p.g + p.b, 3)
           IN  [r |-> avg, g |-> avg, b |-> avg, a |-> p.a]
      [] filterName = "sepia" ->
           [r |-> ToUint8Clamped(393 * p.r + 769 * p.g + 189 * p.b, 1000),
            g |-> ToUint8Clamped(349 * p.r + 686 * p.g + 168 * p.b, 1000),
            b |-> ToUint8Clamped(272 * p.r + 534 * p.g + 131 * p.b, 1000),
            a |-> p.a]
      [] filterName = "invert" ->
           [r |-> ToUint8Clamped(256 - p.r, 1), g |-> ToUint8Clamped(256 - p.g, 1),
            b |-> ToUint8Clamped(256 - p.b, 1), a |-> p.a]
      [] OTHER -> p

\* the body of the loop over the pixels of applyFilterToImage: pixels[i],
\* pixels[i + 1], pixels[i + 2] are assigned, pixels[i + 3] (alpha) is not
FilterPixel(filterName, p) ==
    CASE filterName = "grayscale" ->
           LET avg == ToUint8Clamped(p.r + p.g + p.b, 3)
           IN  [r |-> avg, g |-> avg, b |-> avg, a |-> p.a]
      [] filterName = "sepia" ->
           [r |-> ToUint8Clamped(393 * p.r + 769 * p.g + 189 * p.b, 1000),
            g |-> ToUint8Clamped(349 * p.r + 686 * p.g + 168 * p.b, 1000),
            b |-> ToUint8Clamped(272 * p.r + 534 * p.g + 131 * p.b, 1000),
            a |-> p.a]
      [] filterName = "invert" ->
           [r |-> 255 - p.r, g |-> 255 - p.g, b |-> 255 - p.b, a |-> p.a]
      [] OTHER -> p

\* a colour channel v of a pixel of alpha a after it was stored in a canvas
\* with premultiplied alpha and read back
Premultiplied(v, a) == IF a = 0 THEN 0 ELSE Min(255, Round(Round(v * a, 255) * 255, a))

\* what a canvas gives back for a pixel drawn or put into it: the pixel, or
\* the pixel after the round trip through premultiplied alpha (the backing
\* store is the browser's choice)
CanvasRead(p) == {p, [r |-> Premultiplied(p.r, p.a), g |-> Premultiplied(p.g, p.a),
                      b |-> Premultiplied(p.b, p.a), a |-> p.a]}

\* canvas.toDataURL(type) followed by the decoding of the entry: PNG keeps
\* the pixel, JPEG puts it on opaque black and keeps each channel only up to
\* the error of the lossy encoding
Encoded(type, p) ==
    IF CanvasType(type) = "image/jpeg"
    THEN {[r |-> Max(0, Min(255, Round(p.r * p.a, 255) + d)),
           g |-> Max(0, Min(255, Round(p.g * p.a, 255) + d)),
           b |-> Max(0, Min(255, Round(p.b * p.a, 255) + d)),
           a |-> 255] : d \in (0 - JpegError)..JpegError}
    ELSE {p}

\* img.onload of applyFilterToImage on a decoded entry: the entries it can
\* push (the canvas has the size of the image; the pixels are read, changed
\* and put back unless the filter is none; the canvas is encoded in the
\* media type of the entry)
Filtered(filterName, e) ==
    LET drawn == CanvasRead(e.px)
        put == IF filterName # "none"
               THEN UNION {CanvasRead(FilterPixel(filterName, c)) : c \in drawn}
               ELSE drawn
    IN  {[mimeType |-> e.mimeType, width |-> e.width, height |-> e.height, px |-> q, depth |-> e.depth + 1] :
            q \in UNION {Encoded(e.mimeType, c) : c \in put}}

\* a filter button is clicked on the entry fnIn and the image loads
ApplyFilter(filterName) == /\ fnOut = <<>>
                           /\ fnIn.depth < MaxFilters
                           /\ \E e \in Filtered(filterName, fnIn) : fnOut' = <<[filter |-> filterName, entry |-> e]>>
                           /\ UNCHANGED <<fnIn, vars, mockVars, ieVars>>

\* the entry pushed is the current entry for the next filter
NextFilterEntry == /\ fnOut # <<>>
                   /\ fnIn' = fnOut[1].entry
                   /\ fnOut' = <<>>
                   /\ UNCHANGED <<vars, mockVars, ieVars>>

InitFilter == /\ EditorInit /\ MockInit /\ IeInit
              /\ fnIn \in [mimeType : FilterTypes, width : {2}, height : {1}, px : FilterPixels, depth : {0}]
              /\ fnOut = <<>>
NextFilter == \/ \E n \in FilterArgs : ApplyFilter(n)
              \/ NextFilterEntry
SpecFilter == InitFilter /\ [][NextFilter]_allVars

\* the canvas of img.onload after the pixel loop, for image data of one pixel
\* value: canvas.width = img.width, canvas.height = img.height, the loop is
\* skipped for the filter none
FilterCanvas(filterName, img) ==
    [width |-> img.width, height |-> img.height,
     px |-> IF filterName # "none" THEN FilterPixel(filterName, img.px) ELSE img.px]

FilterOnce == /\ fnOut = <<>>
              /\ fnOut' = <<FilterCanvas(fnIn.filter, fnIn)>>
              /\ UNCHANGED <<fnIn, vars, mockVars, ieVars>>

InitPixel == EditorInit /\ MockInit /\ IeInit /\ fnIn \in PixelInputs /\ fnOut = <<>>
SpecPixel == InitPixel /\ [][FilterOnce]_allVars

\* the arithmetic of the invert case applied to a pixel, up to twice
InvertOnce == /\ Len(fnOut) < 2
              /\ fnOut' = Append(fnOut, FilterPixel("invert", IF fnOut = <<>> THEN fnIn ELSE fnOut[Len(fnOut)]))
              /\ UNCHANGED <<fnIn, vars, mockVars, ieVars>>

InitInvert == EditorInit /\ MockInit /\ IeInit /\ fnIn \in InvertPixels /\ fnOut = <<>>
SpecInvert == InitInvert /\ [][InvertOnce]_allVars

\* ------------------------------------------------------------------ codec
\* createImageUrl without the base64 parameter
createImageUrlPlain(base64Data, mimeType) == <<"data", ":">> \o mimeType \o <<",">> \o base64Data

\* createImageUrl: `data:${mimeType};base64,${base64Data}`
createImageUrl(base64Data, mimeType) == <<"data", ":">> \o mimeType \o <<";", "base64", ",">> \o base64Data

\* the index of the first sep in s from index i on, 0 when there is none
RECURSIVE IndexOf(_, _, _)
IndexOf(s, sep, i) == IF i > Len(s) THEN 0
                      ELSE IF s[i] = sep THEN i ELSE IndexOf(s, sep, i + 1)

\* String.prototype.split(sep)
RECURSIVE Split(_, _)
Split(s, sep) == LET i == IndexOf(s, sep, 1)
                 IN  IF i = 0 THEN <<s>>
                     ELSE <<SubSeq(s, 1, i - 1)>> \o Split(SubSeq(s, i + 1, Len(s)), sep)

\* element k (from 0) of an array, undefined when it has none
At(arr, k) == IF k + 1 <= Len(arr) THEN arr[k + 1] ELSE <<"undefined">>

\* reader.onload of fileToBase64 on the data URL of the reader
fileToBase64Split(url) ==
    LET parts == Split(url, ",")
        mimeTypePart == At(parts, 0)
    IN  [base64 |-> At(parts, 1),
         mimeType |-> At(Split(At(Split(mimeTypePart, ":"), 1), ";"), 0)]

\* arr[0].match(/:(.*?);/): the text between the first ':' and the first ';'
\* after it, or no match (<<>>, else the group in a one-element sequence)
MimeMatch(t) == LET i == IndexOf(t, ":", 1)
                    j == IF i = 0 THEN 0 ELSE IndexOf(t, ";", i + 1)
                IN  IF j = 0 THEN <<>> ELSE <<SubSeq(t, i + 1, j - 1)>>

\* dataURLtoFile up to atob: the payload it decodes and the type of the File
dataURLtoFileSplit(url) ==
    LET arr == Split(url, ",")
        mimeMatch == MimeMatch(At(arr, 0))
    IN  [base64 |-> At(arr, 1),
         mimeType |-> IF mimeMatch # <<>> THEN mimeMatch[1] ELSE <<"image/png">>]

\* the data URI of a payload and a media type is built and split both ways
CodecRoundTrip == /\ fnOut = <<>>
                  /\ LET url == createImageUrl(fnIn.base64, fnIn.mimeType)
                     IN  fnOut' = <<[url |-> url, read |-> fileToBase64Split(url), file |-> dataURLtoFileSplit(url)]>>
                  /\ UNCHANGED <<fnIn, vars, mockVars, ieVars>>

InitCodec == EditorInit /\ MockInit /\ IeInit /\ fnIn \in CodecInputs /\ fnOut = <<>>
SpecCodec == InitCodec /\ [][CodecRoundTrip]_allVars

\* ------------------------------------------------- media type of an entry
\* the history entries pushed from one upload on, each with the media type
\* it declares (mimeType) and the format its bytes are encoded in (encoding)
MaxEntries == 5
\* media types of the files picked (the input accepts image/*)
UploadTypes == {"image/png", "image/jpeg", "image/gif"}
\* formats the gateway answers in (inlineData.mimeType of the response)
GatewayTypes == {"image/png", "image/jpeg"}

TypeEntry(op, m, enc) == [op |-> op, mimeType |-> m, encoding |-> enc]
LastEntry == fnOut[Len(fnOut)]
TypeRoom == fnOut # <<>> /\ Len(fnOut) < MaxEntries

\* handleImageUpload: the media type fileToBase64 read from the data URI of
\* the file
TypeOfUpload == /\ fnOut = <<>>
                /\ fnOut' = <<TypeEntry("upload", fnIn, fnIn)>>
                /\ UNCHANGED <<fnIn, vars, mockVars, ieVars>>

\* applyFilterToImage and handleApplyLogoOverlay: canvas.toDataURL(type)
\* pushed with currentDisplayImageMimeType
TypeOfCanvas(op) ==
    /\ TypeRoom
    /\ fnOut' = Append(fnOut, TypeEntry(op, LastEntry.mimeType, CanvasType(LastEntry.mimeType)))
    /\ UNCHANGED <<fnIn, vars, mockVars, ieVars>>

\* handleApplyCrop: canvas.toDataURL(type) made a file by dataURLtoFile and
\* read back by fileToBase64, which takes the type from the data URI
TypeOfCrop ==
    /\ TypeRoom
    /\ fnOut' = Append(fnOut, TypeEntry("crop", CanvasType(LastEntry.mimeType), CanvasType(LastEntry.mimeType)))
    /\ UNCHANGED <<fnIn, vars, mockVars, ieVars>>

\* handleEditImage and handleRemoveBackground: the data of the response in
\* format t, pushed with currentDisplayImageMimeType
TypeOfGateway(op, t) ==
    /\ TypeRoom
    /\ fnOut' = Append(fnOut, TypeEntry(op, LastEntry.mimeType, t))
    /\ UNCHANGED <<fnIn, vars, mockVars, ieVars>>

InitTypes == EditorInit /\ MockInit /\ IeInit /\ fnIn \in UploadTypes /\ fnOut = <<>>
NextTypes == \/ TypeOfUpload
             \/ \E op \in {"filter", "logo"} : TypeOfCanvas(op)
             \/ TypeOfCrop
             \/ \E op \in {"edit", "rmbg"}, t \in GatewayTypes : TypeOfGateway(op, t)
SpecTypes == InitTypes /\ [][NextTypes]_allVars

\* ------------------------------------------------------- ImageEditor.tsx
\* files picked in the Source Image uploader and prompts typed
IeFiles == {"A", "B"}
IePrompts == {"", "p", "q"}

\* the call awaited: the image, its media type and the prompt handed to the
\* gateway by the closure
IeRequest(kind, p) == [kind |-> kind, image |-> originalImageBase64[1],
                       mimeType |-> originalImageMimeType, prompt |-> p]
\* what editImage / removeImageBackground resolve to
IeResult(req) == <<req.image, req.kind, req.prompt>>

\* handleImageUpload, called by the ImageUploader (which is never disabled)
\* when the reader is done
IeImageUpload(f) == /\ originalImageBase64' = <<f>>
                    /\ originalImageMimeType' = FileType(f)
                    /\ editedImageBase64' = <<>>
                    /\ ieError' = ""
                    /\ UNCHANGED <<iePrompt, ieIsLoading, ieRequest, vars, mockVars, fnVars>>

\* onChange of the prompt input, disabled while loading
IeSetPrompt(p) == /\ ~ieIsLoading
                  /\ iePrompt' = p
                  /\ UNCHANGED <<originalImageBase64, originalImageMimeType, editedImageBase64,
                                 ieIsLoading, ieError, ieRequest, vars, mockVars, fnVars>>

\* handleEditImage up to its await
IeEditStart == /\ ~(ieIsLoading \/ originalImageBase64 = <<>> \/ iePrompt = "")
               /\ IF originalImageBase64 = <<>> \/ originalImageMimeType = "" \/ iePrompt = ""
                  THEN /\ ieError' = "Please upload an image and enter a prompt."
                       /\ UNCHANGED <<ieIsLoading, ieRequest>>
                  ELSE /\ ieIsLoading' = TRUE
                       /\ ieError' = ""
                       /\ ieRequest' = <<IeRequest("edit", iePrompt)>>
               /\ UNCHANGED <<originalImageBase64, originalImageMimeType, editedImageBase64,
                              iePrompt, vars, mockVars, fnVars>>

\* handleRemoveBackground up to its await
IeRemoveBackgroundStart ==
    /\ ~(ieIsLoading \/ originalImageBase64 = <<>>)
    /\ IF originalImageBase64 = <<>> \/ originalImageMimeType = ""
       THEN /\ ieError' = "Please upload an image to remove its background."
            /\ UNCHANGED <<ieIsLoading, ieRequest>>
       ELSE /\ ieIsLoading' = TRUE
            /\ ieError' = ""
            /\ ieRequest' = <<IeRequest("rmbg", "")>>
    /\ UNCHANGED <<originalImageBase64, originalImageMimeType, editedImageBase64,
                   iePrompt, vars, mockVars, fnVars>>

\* the gateway answered: the rest of the try, or the catch, then the finally
IeGatewayComplete(ok) ==
    /\ ieRequest # <<>>
    /\ IF ok
       THEN /\ editedImageBase64' = IeResult(ieRequest[1])
            /\ UNCHANGED ieError
       ELSE /\ ieError' = GatewayFailure(ieRequest[1].kind)
            /\ editedImageBase64' = <<>>
    /\ ieIsLoading' = FALSE
    /\ ieRequest' = <<>>
    /\ UNCHANGED <<originalImageBase64, originalImageMimeType, iePrompt, vars, mockVars, fnVars>>

NextImageEditor == \/ \E f \in IeFiles : IeImageUpload(f)
                   \/ \E p \in IePrompts : IeSetPrompt(p)
                   \/ IeEditStart
                   \/ IeRemoveBackgroundStart
                   \/ \E ok \in BOOLEAN : IeGatewayComplete(ok)

SpecImageEditor == Init /\ [][NextImageEditor]_allVars

\* ====================================================================
\* Properties
\* ====================================================================
\* a step in which an operation in flight completes
Completes(op) == \E b \in BOOLEAN : \/ UploadComplete(op, b)
                                    \/ GatewayComplete(op, b)
                                    \/ CropApplyComplete(op, b)
                                    \/ FilterComplete(op, b)
                                    \/ LogoOverlayComplete(op, b)
CompletionStep == \E op \in Pending : Completes(op)
\* a step in which pushToHistory runs (nothing else advances the position
\* in a completion step)
PushStep == CompletionStep /\ historyIndex' = historyIndex + 1
\* the entry a push step appended
Pushed == imageHistory'[Len(imageHistory')]

\* C1: the position is -1 when the history is empty and otherwise lies in
\* 0 .. length - 1, in every reachable state.
C1_HistoryIndexInRange == IF imageHistory = <<>>
                          THEN historyIndex = -1
                          ELSE historyIndex >= 0 /\ historyIndex <= Len(imageHistory) - 1

\* C2: a push made when the history is e0..en at position p yields e0..ep
\* followed by the new entry, at position p + 1, the new last index.
C2_PushAtPosition == [][PushStep =>
                          /\ imageHistory' = Append(SubSeq(imageHistory, 1, historyIndex + 1), Pushed)
                          /\ historyIndex' = Len(imageHistory') - 1]_vars

\* C3: undo moves the position down by exactly one when it is above 0, redo
\* moves it up by exactly one when it is below length - 1, neither changes
\* the entries, and a redo after an undo is back at the same position and
\* the same current entry.
C3_UndoRedo == [][/\ handleUndo => /\ historyIndex' = historyIndex - 1
                                   /\ imageHistory' = imageHistory
                                   /\ RedoIndex(historyIndex', Len(imageHistory')) = historyIndex
                  /\ handleRedo => /\ historyIndex' = historyIndex + 1
                                   /\ imageHistory' = imageHistory
                                   /\ UndoIndex(historyIndex') = historyIndex]_vars
\* the gateway calls in flight
GatewayCalls == BagCardinality([op \in {o \in Pending : o.kind \in {"edit", "rmbg"}} |-> pending[op]])
\* the operations in flight that have set isLoading
LoadingOps == {op \in Pending : op.kind \in {"edit", "rmbg", "filter", "logo"}}
\* imageHistory' is a prefix of imageHistory followed by one entry
OnePushed == /\ historyIndex' = historyIndex + 1
             /\ Len(imageHistory') >= 1
             /\ Len(imageHistory') <= Len(imageHistory) + 1
             /\ \A i \in 1..(Len(imageHistory') - 1) : imageHistory'[i] = imageHistory[i]

\* C4: an invocation of handleEditImage or handleRemoveBackground makes one
\* gateway call and never a second one; when the call fails the history and
\* the position are unchanged, an error message is set and isLoading is
\* false again; when it succeeds one entry (the result, with the media type
\* of the source) is pushed and isLoading is false again.
C4_GatewayOnce == [][/\ (EditStart \/ RemoveBackgroundStart) => (GatewayCalls = 0 /\ GatewayCalls' = 1)
                     /\ \A op \in Pending :
                          /\ GatewayComplete(op, FALSE) => /\ UNCHANGED <<imageHistory, historyIndex>>
                                                           /\ error' # ""
                                                           /\ isLoading' = FALSE
                                                           /\ GatewayCalls' = 0
                          /\ GatewayComplete(op, TRUE) => /\ OnePushed
                                                          /\ Pushed = [base64 |-> Append(op.base64, op.kind), mimeType |-> op.mimeType]
                                                          /\ isLoading' = FALSE
                                                          /\ GatewayCalls' = 0]_vars

\* a gateway call has failed and its failure is on display
C4_Witness == /\ error \in {"Failed to edit image", "Failed to remove background"}
              /\ ~isLoading
              /\ imageHistory # <<>>
              /\ GatewayCalls = 0

\* C5: at most one operation that pushes to the history is in flight.
C5_SingleFlight == NumPending <= 1

\* C6: a push that completes acts on the history and position current at
\* that time: the current entry (pushed by whatever completed before) stays,
\* directly followed by the new entry; a completion that does not push
\* changes neither the history nor the position.
C6_PushOnCurrent == [][CompletionStep =>
                         \/ UNCHANGED <<imageHistory, historyIndex>>
                         \/ /\ OnePushed
                            /\ Len(imageHistory') = historyIndex + 2
                            /\ HasCurrent => imageHistory'[historyIndex + 1] = currentImageState]_vars

\* C7: when an operation that has set isLoading completes, isLoading is
\* false again, and when it has not pushed a result an error message is set.
C7_LoadingCleared == [][\A op \in LoadingOps : Completes(op) =>
                          /\ isLoading' = FALSE
                          /\ (historyIndex' = historyIndex => error' # "")]_vars

\* C8: a filter, crop or logo composite that fails or is rejected leaves the
\* history and the position as they were; a composite pushes exactly one
\* flattened entry or leaves the history untouched.
C8_LocalAllOrNothing ==
    [][/\ (\E n \in FilterNames : FilterStart(n)) => UNCHANGED <<imageHistory, historyIndex>>
       /\ LogoOverlayStart => UNCHANGED <<imageHistory, historyIndex>>
       /\ (\E sc \in Ratios, pr \in Ratios, ctxOk \in BOOLEAN : CropApplyStart(sc, pr, ctxOk)) => UNCHANGED <<imageHistory, historyIndex>>
       /\ \A op \in Pending, ctxOk \in BOOLEAN :
            /\ (FilterComplete(op, ctxOk) /\ (~ctxOk \/ ~Decodable(op.base64))) => UNCHANGED <<imageHistory, historyIndex>>
            /\ (LogoOverlayComplete(op, ctxOk) /\ (~ctxOk \/ ~Decodable(op.base64) \/ logoBase64 = <<>> \/ ~showLogoOverlay)) => UNCHANGED <<imageHistory, historyIndex>>
            /\ CropApplyComplete(op, FALSE) => UNCHANGED <<imageHistory, historyIndex>>
            /\ LogoOverlayComplete(op, ctxOk) => \/ UNCHANGED <<imageHistory, historyIndex>>
                                                 \/ /\ OnePushed
                                                    /\ Pushed = [base64 |-> Append(op.base64, "logo"), mimeType |-> op.mimeType]]_vars

\* a local transform has failed: isLoading is set and nothing is in flight
\* that set it, with the history as the upload left it
C8_Witness == /\ isLoading
              /\ LoadingOps = {}
              /\ Len(imageHistory) = 1
              /\ historyIndex = 0

\* the transient logo overlay state is cleared
LogoCleared == /\ logoBase64 = <<>>
               /\ ~showLogoOverlay
               /\ logoScale = DefaultLogoScale
               /\ logoPosition = DefaultLogoPosition

\* C9 (as stated): every operation that pushes an entry leaves no logo
\* loaded, the overlay hidden and the placement at its defaults.
C9_PushClearsLogo == [][PushStep => LogoCleared']_vars

\* C9 (amended): every operation that pushes an entry leaves the overlay
\* hidden; all but the logo bake also leave no logo loaded and the placement
\* at its defaults; the logo bake keeps the loaded logo and its placement.
C9_PushHidesLogo == [][PushStep =>
                         /\ ~showLogoOverlay'
                         /\ IF \E op \in Pending : LogoOverlayComplete(op, TRUE)
                            THEN UNCHANGED <<logoBase64, logoMimeType, logoScale, logoPosition>>
                            ELSE LogoCleared']_vars

\* a logo bake has pushed its composite: the logo is still loaded, with the
\* placement it was dragged to, and hidden
C9_Witness == /\ HasCurrent
              /\ currentImageState.base64 = <<"A", "logo">>
              /\ logoBase64 = <<"L">>
              /\ logoPosition # DefaultLogoPosition
              /\ ~showLogoOverlay
              /\ ~isLoading

\* C10: no entry of the history holds bytes that do not decode as an image
\* (a push of such bytes fails and leaves the history unchanged).
C10_EntriesDecodable == \A i \in 1..Len(imageHistory) : Decodable(imageHistory[i].base64)

\* the Apply Crop button can be clicked
ApplyCropEnabled == ENABLED (\E sc \in Ratios, pr \in Ratios, ctxOk \in BOOLEAN : CropApplyStart(sc, pr, ctxOk))

\* C11: while the completed crop rectangle has width 0 or height 0 the crop
\* cannot be applied: handleApplyCrop does not run, so nothing is pushed, the
\* history and the position stay and the editor stays in cropping mode.
C11_ZeroCropRejected == (isCropping /\ completedCrop.def /\ (completedCrop.width = 0 \/ completedCrop.height = 0))
                            => ~ApplyCropEnabled

\* a rectangle without width is selected in the cropping dialog, and there is
\* room for the crop had it been applicable
C11_Witness == /\ isCropping
               /\ imageToCropSrc # <<>>
               /\ completedCrop.def
               /\ completedCrop.width = 0
               /\ Room

\* C12: uploading a logo, dragging it, changing its scale and toggling its
\* visibility leave the history and the position unchanged, as does starting
\* the logo bake; the completion of the bake leaves them unchanged or pushes
\* exactly one entry, the composite.
C12_LogoTransient ==
    [][/\ (\/ \E f \in LogoFiles : handleLogoUpload(f)
           \/ \E v \in BOOLEAN : setShowLogoOverlay(v)
           \/ \E v \in LogoScales : setLogoScale(v)
           \/ handleMouseDown
           \/ \E e \in CursorOffsets, c \in ContainerRects, l \in LogoRects : handleMouseMove(e, c, l)
           \/ handleMouseUp
           \/ LogoOverlayStart) => UNCHANGED <<imageHistory, historyIndex>>
       /\ \A op \in Pending : LogoOverlayComplete(op, TRUE) =>
              \/ UNCHANGED <<imageHistory, historyIndex>>
              \/ /\ OnePushed
                 /\ Len(imageHistory') <= Len(imageHistory) + 1
                 /\ Pushed.base64 = Append(op.base64, "logo")]_vars

\* a logo was uploaded, resized and dragged over the one uploaded image, and
\* the history is as the upload left it
C12_Witness == /\ imageHistory = <<[base64 |-> <<"A">>, mimeType |-> "image/png"]>>
               /\ historyIndex = 0
               /\ logoBase64 = <<"L">>
               /\ showLogoOverlay
               /\ logoScale # DefaultLogoScale
               /\ logoPosition # DefaultLogoPosition
               /\ ~isDraggingLogo

\* C13: in every reachable state the logo scale is in (0, 1] (1 .. 100
\* hundredths) and both coordinates of the logo position are in 0 .. 100.
C13_PlacementInRange == /\ logoScale > 0 /\ logoScale <= 100
                        /\ logoPosition.x >= 0 /\ logoPosition.x <= 100
                        /\ logoPosition.y >= 0 /\ logoPosition.y <= 100

\* the logo, at its smallest scale, was dragged to the left edge and as far
\* down as a logo smaller than the container goes
C13_Witness == /\ logoBase64 = <<"L">>
               /\ logoScale = MinLogoScale
               /\ logoPosition.x = 0
               /\ logoPosition.y > DefaultLogoY

Resized == fnOut # <<>> /\ fnIn.key \in {"720p", "1080p", "4K"}
LargerIn == Max(fnIn.width, fnIn.height)
SmallerIn == Min(fnIn.width, fnIn.height)
LargerOut == IF fnIn.width >= fnIn.height THEN fnOut[1].width ELSE fnOut[1].height
SmallerOut == IF fnIn.width >= fnIn.height THEN fnOut[1].height ELSE fnOut[1].width

\* C16: for the presets 720p, 1080p and 4K with target T and a source wider
\* and taller than T, the larger axis of the result is T and the smaller one
\* is less than one pixel from T * (smaller source axis / larger source axis).
C16_DownscaleExact ==
    (Resized /\ fnIn.width > TargetOf(fnIn.key).dim /\ fnIn.height > TargetOf(fnIn.key).dim) =>
        LET T == TargetOf(fnIn.key).dim
        IN  /\ LargerOut = T
            /\ SmallerOut * LargerIn - T * SmallerIn < LargerIn
            /\ T * SmallerIn - SmallerOut * LargerIn < LargerIn

\* a source that is not square and larger than the 4K target on both axes
\* was resized
C16_Witness == /\ Resized
               /\ fnIn.key = "4K"
               /\ fnIn.width = 5000 /\ fnIn.height = 3841
               /\ fnOut[1].height < P4K

\* C17 (as stated): a source with one axis equal to the target keeps its
\* width and height whatever the other axis is, and the size changes only
\* when both axes are above the target or both are below it.
C17_DeadZoneOneAxis ==
    Resized =>
        LET T == TargetOf(fnIn.key).dim
        IN  /\ (fnIn.width = T \/ fnIn.height = T) => (fnOut[1].width = fnIn.width /\ fnOut[1].height = fnIn.height)
            /\ (fnOut[1].width # fnIn.width \/ fnOut[1].height # fnIn.height)
                 => ((fnIn.width > T /\ fnIn.height > T) \/ (fnIn.width < T /\ fnIn.height < T))

\* C17 (amended): a source whose larger axis equals the target keeps its
\* width and height; in every other case (an axis above the target, or both
\* below it) the result has its larger axis equal to the target.
C17_DeadZoneLargerAxis ==
    Resized =>
        LET T == TargetOf(fnIn.key).dim
        IN  IF LargerIn = T
            THEN fnOut[1].width = fnIn.width /\ fnOut[1].height = fnIn.height
            ELSE LargerOut = T /\ LargerOut # LargerIn

\* a source as wide as the 720p target and taller than it was scaled down
C17_Witness == /\ Resized
               /\ fnIn.key = "720p"
               /\ fnIn.width = P720 /\ fnIn.height = 1281
               /\ fnOut[1].height = P720
               /\ fnOut[1].width < P720

\* C18: with the preset original, and with any key that is not a preset of
\* the table, the call returns the payload it was given, without decoding or
\* re-encoding the image.
C18_OriginalIdentity ==
    (fnOut # <<>> /\ fnIn.key \notin {"720p", "1080p", "4K"}) => (fnOut[1].same /\ ~fnOut[1].decoded)

\* the prompts 1 .. n in order
PromptsTo(n) == [i \in 1..n |-> i]
\* the step that ends a run of handleGenerateMockups
GenerateEnds(ok) == GenerateStep(ok) /\ mockRun[1].next = NumPrompts

\* C15: when a run of handleGenerateMockups ends, every prompt has been
\* attempted once in order, mockups holds the successful scenarios in prompt
\* order, the warning is set if and only if a scenario failed, and isLoading
\* is false.
C15_BatchOutcome ==
    [][\A ok \in BOOLEAN : GenerateEnds(ok) =>
         LET failed == IF ok THEN mockRun[1].failed ELSE mockRun[1].failed \cup {NumPrompts}
         IN  /\ mockRun[1].attempted = PromptsTo(NumPrompts)
             /\ mockups' = SelectSeq([i \in 1..NumPrompts |-> Mockup(mockRun[1], i)],
                                     LAMBDA m : m.prompt \notin failed)
             /\ (mockError' # "") <=> (failed # {})
             /\ ~mockIsLoading']_allVars

\* C19: the entry pushed by the filter none has the pixel values, the width
\* and the height of the entry it was applied to (which may itself be the
\* result of a filter).
C19_NoneKeepsPixels ==
    (fnOut # <<>> /\ fnOut[1].filter = "none") =>
        /\ fnOut[1].entry.px = fnIn.px
        /\ fnOut[1].entry.width = fnIn.width
        /\ fnOut[1].entry.height = fnIn.height

SepiaR(p) == Min(255000, 393 * p.r + 769 * p.g + 189 * p.b)
SepiaG(p) == Min(255000, 349 * p.r + 686 * p.g + 168 * p.b)
SepiaB(p) == Min(255000, 272 * p.r + 534 * p.g + 131 * p.b)
\* v is an 8-bit value nearest to n / d
Nearest8(v, n, d) == v \in 0..255 /\ 2 * (v * d - n) <= d /\ 2 * (n - v * d) <= d

\* C21: grayscale sets R, G and B to the mean of R, G, B and sepia sets them
\* to min(255, weighted sum) with the weights of the claim, each stored as
\* the nearest 8-bit value; every channel is in 0 .. 255, alpha is untouched
\* and the canvas keeps the width and height of the image.
C21_GrayscaleSepia ==
    fnOut # <<>> =>
        LET p == fnIn.px
            q == fnOut[1].px
        IN  /\ q.r \in 0..255 /\ q.g \in 0..255 /\ q.b \in 0..255
            /\ q.a = p.a
            /\ fnOut[1].width = fnIn.width /\ fnOut[1].height = fnIn.height
            /\ fnIn.filter = "grayscale" =>
                  /\ q.r = q.g /\ q.g = q.b
                  /\ Nearest8(q.r, p.r + p.g + p.b, 3)
            /\ fnIn.filter = "sepia" =>
                  /\ Nearest8(q.r, SepiaR(p), 1000)
                  /\ Nearest8(q.g, SepiaG(p), 1000)
                  /\ Nearest8(q.b, SepiaB(p), 1000)

\* sepia was applied to a pixel whose red sum exceeds 255 and whose blue sum
\* does not
C21_Witness == /\ fnOut # <<>>
               /\ fnIn.filter = "sepia"
               /\ fnIn.px = [r |-> 255, g |-> 255, b |-> 0, a |-> 255]
               /\ fnOut[1].px.r = 255
               /\ fnOut[1].px.b = 206

\* C24: a filter name that is none of none, grayscale, sepia, invert pushes
\* an entry whose pixels equal those of the entry it was applied to.
C24_UnknownFilterKeepsPixels ==
    (fnOut # <<>> /\ fnOut[1].filter \notin FilterNames) => fnOut[1].entry.px = fnIn.px

\* C22: splitting the data URI built from a payload and a media type, as
\* fileToBase64 splits it and as dataURLtoFile splits it, gives back the
\* payload and the media type.
C22_CodecRoundTrip ==
    fnOut # <<>> =>
        /\ fnOut[1].read = [base64 |-> fnIn.base64, mimeType |-> fnIn.mimeType]
        /\ fnOut[1].file = [base64 |-> fnIn.base64, mimeType |-> fnIn.mimeType]

\* a data URI with a media type holding '/' and '+' and a padded payload was
\* built and split
C22_Witness == /\ fnOut # <<>>
               /\ fnIn.mimeType = <<"i", "/", "+">>
               /\ fnIn.base64 = <<"A", "/", "=">>
               /\ Len(fnOut[1].url) = 11

\* C23: every crop that is applied (its rectangle has width > 0 and height
\* > 0) draws on a canvas of floor(width * scale * pixel ratio) by
\* floor(height * scale * pixel ratio) pixels, both at least 1.
C23_CropAtLeastOnePixel ==
    [][\A sc \in Ratios, pr \in Ratios :
         (CropApplyStart(sc, pr, TRUE) /\ pending' # pending) =>
             /\ CanvasDim(completedCrop.width, sc, pr) >= 1
             /\ CanvasDim(completedCrop.height, sc, pr) >= 1]_vars

\* C25: for the presets 720p, 1080p and 4K with target T and every source
\* size, the larger axis of the result is T, whichever branch is taken, and
\* both axes are at least 1.
C25_LargerAxisIsTarget ==
    Resized =>
        /\ Max(fnOut[1].width, fnOut[1].height) = TargetOf(fnIn.key).dim
        /\ fnOut[1].width >= 1
        /\ fnOut[1].height >= 1

\* a source 5000 wide and 1 high was scaled down: its height is held at 1
C25_Witness == /\ Resized
               /\ fnIn.key = "720p"
               /\ fnIn.width = 5000 /\ fnIn.height = 1
               /\ fnOut[1].width = P720
               /\ fnOut[1].height = 1

\* C26: resizing the result again with the same key gives the same width
\* and height.
C26_ResizeIdempotent ==
    Len(fnOut) = 2 => (fnOut[2].width = fnOut[1].width /\ fnOut[2].height = fnOut[1].height)

\* a source above the 1080p target was resized to it, and resized again
C26_Witness == /\ Len(fnOut) = 2
               /\ fnIn.key = "1080p"
               /\ fnIn.width = 2560 /\ fnIn.height = 1921
               /\ fnOut[2].width = P1080

\* C28: an upload is an ordinary push. When the reader of a new source image
\* is done and the history is e0..en at position p, the history becomes
\* e0..ep followed by the uploaded image (the entries after p are dropped,
\* none before it), at position p + 1; it is never emptied or restarted.
C28_UploadIsPush ==
    [][\A op \in Pending : UploadComplete(op, TRUE) =>
         /\ Len(imageHistory') = historyIndex + 2
         /\ \A i \in 1..(historyIndex + 1) : imageHistory'[i] = imageHistory[i]
         /\ imageHistory'[historyIndex + 2] = [base64 |-> op.base64, mimeType |-> op.mimeType]
         /\ historyIndex' = historyIndex + 1]_vars

\* C29: whenever the mockup list is not empty, a logo is loaded and every
\* mockup of the list was generated from it.
C29_MockupsOfCurrentLogo ==
    \A i \in 1..Len(mockups) :
        /\ mockLogoBase64 # <<>>
        /\ mockups[i].base64[1] = mockLogoBase64[1]

\* C27: every entry pushed declares the media type its bytes are encoded in.
C27_DeclaredTypeIsEncoding ==
    \A i \in 1..Len(fnOut) : fnOut[i].mimeType = fnOut[i].encoding

\* C30: in the editor without a history, a result that is displayed was
\* made by the gateway from the image that is uploaded, in every reachable
\* state (a new upload leaves no result of the image before it).
C30_ResultOfUploadedImage ==
    editedImageBase64 # <<>> =>
        /\ originalImageBase64 # <<>>
        /\ editedImageBase64[1] = originalImageBase64[1]
====
